---- MODULE Spec2Model ----
(***************************************************************************)
(* remind: a command-line reminder (src/rust/remind/src/main.rs).          *)
(*                                                                         *)
(* Args::parse runs Delta::from_str on the positional argument `delta`,    *)
(* a character-by-character scan that fills hours and minutes; main then   *)
(* prints a confirmation, sleeps, clears the screen and alerts, once or    *)
(* every 30 seconds.                                                       *)
(*                                                                         *)
(* A string is a sequence of characters; a character is a one-character    *)
(* TLA+ string, except the non-ASCII numeric character U+0663 (ARABIC-     *)
(* INDIC DIGIT THREE), written "U+0663".                                   *)
(***************************************************************************)
EXTENDS Integers, Sequences, FiniteSets, TLC

VARIABLES
    s,        \* from_str: the string being parsed (the `delta` argument)
    pos,      \* from_str: index of the next character of s.chars()
    number,   \* from_str: the accumulator `number`
    hours,    \* from_str: local `hours`
    minutes,  \* from_str: local `minutes`
    ret,      \* from_str: the returned Result<Delta, DeltaError>
    pc,       \* main: position in main
    args,     \* main: the parsed Args
    seconds,  \* main: local `seconds`
    slept,    \* the durations passed to thread::sleep so far, in order
    out       \* what was written to standard output so far, in order

vars == <<s, pos, number, hours, minutes, ret, pc, args, seconds, slept, out>>

----------------------------------------------------------------------------
(* Bounds of the model *)

\* longest string over Alphabet given to from_str
MaxLen == 4
\* largest N and M of the strings "{N}h{M}m" and "{M}m{N}h" given to from_str
MaxN == 256
\* the repeat loop of main is followed until this many alerts were emitted
MaxAlerts == 3

(* Program constants *)

\* hours and minutes are u8
U8Max == 255
SecondsPerHour == 3600
SecondsPerMinute == 60
RepeatSeconds == 30

----------------------------------------------------------------------------
(* Characters *)

Digits == <<"0", "1", "2", "3", "4", "5", "6", "7", "8", "9">>

AsciiDigits == {Digits[i] : i \in 1..10}

\* value of an ASCII decimal digit (char::to_digit(10))
DigitValue(c) == (CHOOSE i \in 1..10 : Digits[i] = c) - 1

\* numeric characters that are not ASCII digits (Unicode Nd/Nl/No)
OtherNumerics == {"U+0663"}

\* char::is_numeric
IsNumeric(c) == c \in AsciiDigits \cup OtherNumerics

\* the characters of the short input strings
Alphabet == {"0", "2", "6", "h", "m", "x", "U+0663"}

----------------------------------------------------------------------------
(* str::parse::<u8>: the digits are folded left to right with checked      *)
(* arithmetic; an empty string, a character that is no ASCII digit, or a   *)
(* value above u8::MAX is an error.                                        *)

ParseErr == -1

RECURSIVE ParseDigitsWrapping(_, _)
ParseDigitsWrapping(str, acc) ==
    IF str = <<>> THEN acc
    ELSE IF Head(str) \notin AsciiDigits THEN ParseErr
    ELSE ParseDigitsWrapping(Tail(str), (acc * 10 + DigitValue(Head(str))) % (U8Max + 1))

RECURSIVE ParseDigits(_, _)
ParseDigits(str, acc) ==
    IF str = <<>> THEN acc
    ELSE IF Head(str) \notin AsciiDigits THEN ParseErr
    ELSE LET v == acc * 10 + DigitValue(Head(str))
         IN  IF v > U8Max THEN ParseErr ELSE ParseDigits(Tail(str), v)

ParseU8Wrapping(str) == IF str = <<>> THEN ParseErr ELSE ParseDigitsWrapping(str, 0)

ParseU8(str) == IF str = <<>> THEN ParseErr ELSE ParseDigits(str, 0)

----------------------------------------------------------------------------
(* Result<Delta, DeltaError> *)

NoResult == [tag |-> "None", hours |-> 0, minutes |-> 0, message |-> ""]

Ok(h, m) == [tag |-> "Ok", hours |-> h, minutes |-> m, message |-> ""]

DeltaError(msg) == [tag |-> "Err", hours |-> 0, minutes |-> 0, message |-> msg]

InvalidHours == "Invalid hours"
InvalidMinutes == "Invalid minutes"
InvalidSyntax == "Invalid syntax, ex: 2h30m"

----------------------------------------------------------------------------
(* Strings given to from_str *)

\* an integer written in decimal (Display, as used by format! and println!)
RECURSIVE ToDecimal(_)
ToDecimal(n) ==
    IF n < 10 THEN <<Digits[n + 1]>>
    ELSE ToDecimal(n \div 10) \o <<Digits[(n % 10) + 1]>>

\* the decimal forms of 0..MaxN+1
Decimals == [n \in 0..(MaxN + 1) |-> ToDecimal(n)]

Decimal(n) == Decimals[n]

\* "{N}h{M}m" and "{M}m{N}h"
HM(N, M) == Decimal(N) \o <<"h">> \o Decimal(M) \o <<"m">>
MH(N, M) == Decimal(M) \o <<"m">> \o Decimal(N) \o <<"h">>

\* the strings of the documentation, and three longer ones
SampleStrings ==
    { HM(2, 30), MH(2, 30), HM(0, 0), HM(0, 1), HM(U8Max, U8Max),
      <<"2", "h", "3", "0">>,
      <<"2", "h", "2", "5", "6">>,
      <<"2", "h", "2", "5", "6", "m">>,
      <<"2", "5", "6", "h", " ", "x">> }

----------------------------------------------------------------------------
(* Delta::from_str. The locals of a call are a record; each match arm of   *)
(* the loop body is an operator on it.                                     *)

Locals(p, n, h, m, r) == [pos |-> p, number |-> n, hours |-> h, minutes |-> m, ret |-> r]

\* let mut hours = 0; let mut minutes = 0; let mut number = String::new();
Entry == Locals(1, <<>>, 0, 0, NoResult)

\* number.clear()
NotCleared(buf) == buf

Cleared(buf) == <<>>

\* the arm "h"
HourArmAdds(st) ==
    LET v == ParseU8(st.number)
    IN  IF v = ParseErr
        THEN [st EXCEPT !.ret = DeltaError(InvalidHours)]
        ELSE [st EXCEPT !.hours = (@ + v) % (U8Max + 1),
                        !.number = Cleared(@), !.pos = @ + 1]

HourArmResetsMinutes(st) ==
    LET v == ParseU8(st.number)
    IN  IF v = ParseErr
        THEN [st EXCEPT !.ret = DeltaError(InvalidHours)]
        ELSE [st EXCEPT !.hours = v, !.minutes = 0, !.number = Cleared(@), !.pos = @ + 1]

HourArm(st) ==
    LET v == ParseU8(st.number)
    IN  IF v = ParseErr
        THEN [st EXCEPT !.ret = DeltaError(InvalidHours)]
        ELSE [st EXCEPT !.hours = v, !.number = Cleared(@), !.pos = @ + 1]

\* the arm "m"
MinuteArm(st) ==
    LET v == ParseU8(st.number)
    IN  IF v = ParseErr
        THEN [st EXCEPT !.ret = DeltaError(InvalidMinutes)]
        ELSE [st EXCEPT !.minutes = v, !.number = Cleared(@), !.pos = @ + 1]

\* the arm _
OtherArmKeepsGoing(st, c) ==
    IF IsNumeric(c)
    THEN [st EXCEPT !.number = @ \o <<c>>, !.pos = @ + 1]
    ELSE [st EXCEPT !.pos = @ + 1]

OtherArm(st, c) ==
    IF IsNumeric(c)
    THEN [st EXCEPT !.number = @ \o <<c>>, !.pos = @ + 1]
    ELSE [st EXCEPT !.ret = DeltaError(InvalidSyntax)]

\* match c.to_string().as_str()
Match(st, c) ==
    IF c = "h" THEN HourArm(st)
    ELSE IF c = "m" THEN MinuteArm(st)
    ELSE OtherArm(st, c)

\* after the loop: Ok(Self { hours, minutes })
ReturnStrict(st) ==
    [st EXCEPT !.ret = IF st.number = <<>> THEN Ok(st.hours, st.minutes)
                       ELSE DeltaError(InvalidSyntax)]

Return(st) == [st EXCEPT !.ret = Ok(st.hours, st.minutes)]

\* the whole call, from the locals st on
RECURSIVE Scan(_, _)
Scan(str, st) ==
    IF st.ret.tag # "None" THEN st
    ELSE IF st.pos > Len(str) THEN Return(st)
    ELSE Scan(str, Match(st, str[st.pos]))

from_str(str) == Scan(str, Entry).ret

----------------------------------------------------------------------------
(* The call of from_str made by Args::parse, one step at a time *)

Cur == Locals(pos, number, hours, minutes, ret)

Becomes(st) ==
    /\ pos' = st.pos
    /\ number' = st.number
    /\ hours' = st.hours
    /\ minutes' = st.minutes
    /\ ret' = st.ret

Scanning == pc = "parse" /\ ret.tag = "None" /\ pos <= Len(s)

\* one iteration of `for c in s.chars()`, by the arm taken
ScanHour ==
    /\ Scanning
    /\ s[pos] = "h"
    /\ Becomes(Match(Cur, s[pos]))
    /\ UNCHANGED <<s, pc, args, seconds, slept, out>>

ScanMinute ==
    /\ Scanning
    /\ s[pos] = "m"
    /\ Becomes(Match(Cur, s[pos]))
    /\ UNCHANGED <<s, pc, args, seconds, slept, out>>

ScanOther ==
    /\ Scanning
    /\ s[pos] \notin {"h", "m"}
    /\ Becomes(Match(Cur, s[pos]))
    /\ UNCHANGED <<s, pc, args, seconds, slept, out>>

\* the iterator is exhausted
ScanEnd ==
    /\ pc = "parse"
    /\ ret.tag = "None"
    /\ pos > Len(s)
    /\ Becomes(Return(Cur))
    /\ UNCHANGED <<s, pc, args, seconds, slept, out>>

NoArgs == [once |-> FALSE, delta |-> [hours |-> 0, minutes |-> 0], message |-> <<>>]

\* the process starts: Args::parse calls from_str on the argument str
Start(str) ==
    /\ s = str
    /\ pos = Entry.pos
    /\ number = Entry.number
    /\ hours = Entry.hours
    /\ minutes = Entry.minutes
    /\ ret = Entry.ret
    /\ pc = "parse"
    /\ args = NoArgs
    /\ seconds = 0
    /\ slept = <<>>
    /\ out = <<>>

\* from_str alone
NextFromStr == ScanHour \/ ScanMinute \/ ScanOther \/ ScanEnd

\* from_str on every "{N}h{M}m"
InitHM == \E N \in 0..MaxN, M \in 0..MaxN : Start(HM(N, M))

SpecHM == InitHM /\ [][NextFromStr]_vars

\* from_str on every "{M}m{N}h"
InitMH == \E N \in 0..MaxN, M \in 0..MaxN : Start(MH(N, M))

SpecMH == InitMH /\ [][NextFromStr]_vars

----------------------------------------------------------------------------
(* main. print! and println! have no error path in main and are taken to    *)
(* succeed; the flush of standard output is the one step that can fail.    *)

\* Option<String> of the positional argument `message`
Messages == {<<>>, <<"Go for a walk">>}

\* args.message.unwrap_or("Time is up!".to_string())
MessageText == IF args.message = <<>> THEN "Time is up!" ELSE args.message[1]

\* u64::from(hours) * 3600 + u64::from(minutes) * 60: the operands are widened
\* first, and no u8 pair comes near the u64 range, so the sum never wraps
SecondsInU8(h, m) == (h * SecondsPerHour + m * SecondsPerMinute) % (U8Max + 1)

SecondsOf(h, m) == h * SecondsPerHour + m * SecondsPerMinute

\* "Remind in {} hour(s) and {} minute(s).\n"
Confirmation ==
    <<"Remind in ">> \o ToDecimal(args.delta.hours) \o <<" hour(s) and ">>
        \o ToDecimal(args.delta.minutes) \o <<" minute(s).", "LF">>

\* "\x1b[2J\x1b[H"
ClearSequence == <<"ESC[2J", "ESC[H">>

\* "\x07{}\n"
AlertLine == <<"BEL", MessageText, "LF">>

\* the alerts emitted so far
Alerts == Cardinality({i \in 1..Len(out) : out[i] = "BEL"})

\* Args::parse returns: from_str succeeded, and the flag and the message are read
ArgsParsed ==
    /\ pc = "parse"
    /\ ret.tag = "Ok"
    /\ \E o \in BOOLEAN, msg \in Messages :
          args' = [once |-> o,
                   delta |-> [hours |-> ret.hours, minutes |-> ret.minutes],
                   message |-> msg]
    /\ pc' = "confirm"
    /\ UNCHANGED <<s, pos, number, hours, minutes, ret, seconds, slept, out>>

\* Args::parse reports the DeltaError and exits the process (code 2)
ArgsRejected ==
    /\ pc = "parse"
    /\ ret.tag = "Err"
    /\ pc' = "exit_usage"
    /\ UNCHANGED <<s, pos, number, hours, minutes, ret, args, seconds, slept, out>>

\* let seconds = ...; println!("Remind in ...")
Confirm ==
    /\ pc = "confirm"
    /\ seconds' = SecondsOf(args.delta.hours, args.delta.minutes)
    /\ out' = out \o Confirmation
    /\ pc' = "sleep"
    /\ UNCHANGED <<s, pos, number, hours, minutes, ret, args, slept>>

\* thread::sleep(Duration::from_secs(seconds))
InitialSleep ==
    /\ pc = "sleep"
    /\ slept' = Append(slept, seconds)
    /\ pc' = "clear"
    /\ UNCHANGED <<s, pos, number, hours, minutes, ret, args, seconds, out>>

\* print!("\x1b[2J\x1b[H")
ClearScreen ==
    /\ pc = "clear"
    /\ out' = out \o ClearSequence
    /\ pc' = "flush"
    /\ UNCHANGED <<s, pos, number, hours, minutes, ret, args, seconds, slept>>

\* io::stdout().flush()? succeeds
FlushOk ==
    /\ pc = "flush"
    /\ pc' = "alert"
    /\ UNCHANGED <<s, pos, number, hours, minutes, ret, args, seconds, slept, out>>

\* io::stdout().flush()? fails: main returns the io::Error (exit code 1)
FlushErr ==
    /\ pc = "flush"
    /\ pc' = "exit_io_error"
    /\ UNCHANGED <<s, pos, number, hours, minutes, ret, args, seconds, slept, out>>

\* println!("\x07{}", message)
AlertClearsFirst ==
    /\ pc = "alert"
    /\ out' = out \o ClearSequence \o AlertLine
    /\ pc' = "alerted"
    /\ UNCHANGED <<s, pos, number, hours, minutes, ret, args, seconds, slept>>

Alert ==
    /\ pc = "alert"
    /\ out' = out \o AlertLine
    /\ pc' = "alerted"
    /\ UNCHANGED <<s, pos, number, hours, minutes, ret, args, seconds, slept>>

\* if args.once { break; } and Ok(())
BreakAlways ==
    /\ pc = "alerted"
    /\ pc' = "exit_ok"
    /\ UNCHANGED <<s, pos, number, hours, minutes, ret, args, seconds, slept, out>>

Break ==
    /\ pc = "alerted"
    /\ args.once
    /\ pc' = "exit_ok"
    /\ UNCHANGED <<s, pos, number, hours, minutes, ret, args, seconds, slept, out>>

\* thread::sleep(Duration::from_secs(30)), and the loop starts over
RepeatSleepAlways ==
    /\ pc = "alerted"
    /\ Alerts < MaxAlerts
    /\ slept' = Append(slept, RepeatSeconds)
    /\ pc' = "alert"
    /\ UNCHANGED <<s, pos, number, hours, minutes, ret, args, seconds, out>>

RepeatSleep ==
    /\ pc = "alerted"
    /\ ~args.once
    /\ Alerts < MaxAlerts
    /\ slept' = Append(slept, RepeatSeconds)
    /\ pc' = "alert"
    /\ UNCHANGED <<s, pos, number, hours, minutes, ret, args, seconds, out>>

\* the exit code of the process, once it has ended
ExitCode ==
    CASE pc = "exit_ok" -> 0
      [] pc = "exit_io_error" -> 1
      [] pc = "exit_usage" -> 2
      [] OTHER -> -1

Init ==
    \/ \E k \in 0..MaxLen : \E str \in [1..k -> Alphabet] : Start(str)
    \/ \E str \in SampleStrings : Start(str)

Next ==
    \/ ScanHour
    \/ ScanMinute
    \/ ScanOther
    \/ ScanEnd
    \/ ArgsParsed
    \/ ArgsRejected
    \/ Confirm
    \/ InitialSleep
    \/ ClearScreen
    \/ FlushOk
    \/ FlushErr
    \/ Alert
    \/ Break
    \/ RepeatSleep

Spec == Init /\ [][Next]_vars

\* the process is one thread that keeps running: whatever step is enabled is taken
LiveSpec == Spec /\ WF_vars(Next)

----------------------------------------------------------------------------
(* Vocabulary of the properties *)

Markers == {"h", "m"}

Returned == ret.tag # "None"

\* the message of the error raised at the marker c
MarkerMessage(c) == IF c = "h" THEN InvalidHours ELSE InvalidMinutes

\* the decimal value of a string of ASCII digits, as a mathematical integer
RECURSIVE ValueOf(_)
ValueOf(str) ==
    IF str = <<>> THEN 0
    ELSE 10 * ValueOf(SubSeq(str, 1, Len(str) - 1)) + DigitValue(str[Len(str)])

\* a non-empty string of ASCII digits whose value fits a u8
ValidNumber(str) ==
    /\ str # <<>>
    /\ \A i \in 1..Len(str) : str[i] \in AsciiDigits
    /\ ValueOf(str) <= U8Max

\* the characters of str between the last marker before index i and index i
TextBefore(str, i) ==
    LET before == {j \in 1..(i - 1) : str[j] \in Markers}
        from == IF before = {} THEN 1 ELSE (CHOOSE j \in before : \A k \in before : k <= j) + 1
    IN  SubSeq(str, from, i - 1)

\* the indices of str holding the character c
Occurrences(str, c) == {i \in 1..Len(str) : str[i] = c}

Last(S) == CHOOSE i \in S : \A j \in S : j <= i

First(S) == CHOOSE i \in S : \A j \in S : i <= j

\* the indices of str holding a character that is neither numeric nor a marker
Strangers(str) == {i \in 1..Len(str) : ~IsNumeric(str[i]) /\ str[i] \notin Markers}

\* the markers of str before index i whose number is missing or invalid
BadMarkersBefore(str, i) ==
    {j \in 1..(i - 1) : str[j] \in Markers /\ ~ValidNumber(TextBefore(str, j))}

IsPrefix(p, str) == Len(p) <= Len(str) /\ SubSeq(str, 1, Len(p)) = p

----------------------------------------------------------------------------
(* Properties of from_str *)

\* C1: for all N and M in 0..255, from_str("{N}h{M}m") returns Ok with
\* hours = N and minutes = M.
C1_HoursThenMinutes ==
    Returned =>
        \A N \in 0..U8Max :
            IsPrefix(Decimal(N) \o <<"h">>, s) =>
                \A M \in 0..U8Max : s = HM(N, M) => ret = Ok(N, M)

C1_Witness == s = HM(U8Max, 34) /\ ret = Ok(U8Max, 34)

\* C2 as stated: whenever the string holds a character that is neither a digit
\* nor 'h' nor 'm', from_str fails with "Invalid syntax, ex: 2h30m".
C2_AsStated ==
    (Returned /\ Strangers(s) # {}) => ret = DeltaError(InvalidSyntax)

\* C2, amended: whenever the string holds a character that is neither numeric
\* nor 'h' nor 'm', from_str fails; the message is "Invalid syntax, ex: 2h30m"
\* when every marker before the first such character ends a valid number, and
\* otherwise the message of the first marker that does not.
C2_FirstFailureWins ==
    (Returned /\ Strangers(s) # {}) =>
        LET x == First(Strangers(s))
            bad == BadMarkersBefore(s, x)
        IN  ret = DeltaError(IF bad = {} THEN InvalidSyntax ELSE MarkerMessage(s[First(bad)]))

C2_Witness ==
    /\ ret = DeltaError(InvalidSyntax)
    /\ \E i \in 1..Len(s) : s[i] \in Markers /\ i < First(Strangers(s))

\* C3: a step of the scan that meets a marker while the accumulator is empty,
\* holds a value above 255 or holds a numeric character that is no ASCII digit
\* ends the call with that marker's error, whatever was parsed before; and an
\* error, once returned, stays.
C3_MarkerNeedsNumber ==
    [][ /\ (Scanning /\ s[pos] \in Markers /\ ~ValidNumber(number))
            => ret' = DeltaError(MarkerMessage(s[pos]))
        /\ ret.tag = "Err" => ret' = ret ]_vars

C3_Witness ==
    /\ ret = DeltaError(InvalidMinutes)
    /\ hours = 2
    /\ number = <<"2", "5", "6">>

\* C4: for all N and M in 0..255, from_str("{M}m{N}h") returns Ok with
\* hours = N and minutes = M, which is what from_str("{N}h{M}m") returns.
C4_MinutesThenHours ==
    Returned =>
        \A M \in 0..U8Max :
            IsPrefix(Decimal(M) \o <<"m">>, s) =>
                \A N \in 0..U8Max :
                    s = MH(N, M) => ret = Ok(N, M) /\ ret = from_str(HM(N, M))

C4_Witness == s = MH(2, 30) /\ ret = Ok(2, 30)

\* C5: numeric characters after the last marker are dropped unread: if
\* from_str succeeds on a prefix of the string and only numeric characters
\* follow the prefix, from_str returns on the string what it returns on the
\* prefix; so the empty string and all-digit strings give 0 hours 0 minutes,
\* and "2h30" gives 2 hours 0 minutes.
C5_TrailingDigitsDropped ==
    Returned =>
        /\ \A k \in 0..Len(s) :
              ( /\ \A i \in (k + 1)..Len(s) : IsNumeric(s[i])
                /\ from_str(SubSeq(s, 1, k)).tag = "Ok" )
              => ret = from_str(SubSeq(s, 1, k))
        /\ (\A i \in 1..Len(s) : IsNumeric(s[i])) => ret = Ok(0, 0)
        /\ s = <<"2", "h", "3", "0">> => ret = Ok(2, 0)

C5_Witness == s = <<"2", "h", "2", "5", "6">> /\ ret = Ok(2, 0)

\* C9: when from_str succeeds, hours is the number ended by the last 'h' of the
\* string (0 without 'h') and minutes the number ended by the last 'm' (0
\* without 'm'); and a string of numeric characters and markers in which every
\* marker ends a valid number succeeds, however often a marker occurs.
C9_LastMarkerWins ==
    Returned =>
        LET NumberAtLast(c) ==
                IF Occurrences(s, c) = {} THEN 0
                ELSE ValueOf(TextBefore(s, Last(Occurrences(s, c))))
        IN  /\ ret.tag = "Ok" =>
                ret.hours = NumberAtLast("h") /\ ret.minutes = NumberAtLast("m")
            /\ (Strangers(s) = {} /\ BadMarkersBefore(s, Len(s) + 1) = {}) => ret.tag = "Ok"

C9_Witness == s = <<"2", "h", "6", "h">> /\ ret = Ok(6, 0)

----------------------------------------------------------------------------
(* Properties of main *)

\* Args::parse has returned to main
InMain == pc \notin {"parse", "exit_usage"}

\* the process has ended
Ended == pc \in {"exit_ok", "exit_io_error", "exit_usage"}

\* the states of the run: before the wait, in it, after it
Idle == pc \in {"parse", "confirm"}
Waiting == pc = "sleep"
Alerting == pc \in {"clear", "flush", "alert", "alerted", "exit_ok"}

\* the string str written n times over
RECURSIVE Times(_, _)
Times(str, n) == IF n = 0 THEN <<>> ELSE str \o Times(str, n - 1)

\* how often the token tok was written
Count(tok) == Cardinality({i \in 1..Len(out) : out[i] = tok})

\* C6 as stated: in once mode, after a successful parse, the process ends with
\* exit code 0 after exactly one alert and no 30-second wait, the one wait
\* before it being of 0 seconds for 0h0m.
C6_AsStated ==
    (InMain /\ args.once /\ Ended) =>
        /\ ExitCode = 0
        /\ Alerts = 1
        /\ Len(slept) = 1
        /\ (args.delta.hours = 0 /\ args.delta.minutes = 0) => slept = <<0>>

\* C6, amended: in once mode, after a successful parse, the process never
\* enters the 30-second wait and always ends; when the flush of the clear
\* sequence succeeds it ends with exit code 0 after exactly one alert, and when
\* the flush fails it ends with exit code 1 and no alert; for 0h0m the one wait
\* is of 0 seconds.
C6_OnceMode ==
    /\ []((InMain /\ args.once) =>
            /\ Len(slept) <= 1
            /\ Alerts <= 1
            /\ pc = "exit_ok" => (ExitCode = 0 /\ Alerts = 1 /\ Len(slept) = 1)
            /\ pc = "exit_io_error" => (ExitCode = 1 /\ Alerts = 0)
            /\ (args.delta.hours = 0 /\ args.delta.minutes = 0 /\ slept # <<>>)
                   => slept = <<0>>)
    /\ (InMain /\ args.once) ~> (pc \in {"exit_ok", "exit_io_error"})
    /\ (args.once /\ pc = "alert") ~> (pc = "exit_ok")

C6_Witness ==
    /\ args.once
    /\ pc = "exit_ok"
    /\ args.delta = [hours |-> 0, minutes |-> 0]
    /\ slept = <<0>>
    /\ Alerts = 1

\* C7: without `once`, each alert is followed by a wait of 30 seconds and then
\* by another alert (as far as the model follows the loop), and the process
\* never ends with exit code 0: it does so only in once mode.
C7_RepeatsForever ==
    /\ [](pc = "exit_ok" => args.once)
    /\ []((InMain /\ ~args.once /\ Alerts >= 1) =>
            /\ Len(slept) \in {Alerts, Alerts + 1}
            /\ \A i \in 2..Len(slept) : slept[i] = 30
            /\ ~Ended)
    /\ \A k \in 1..(MaxAlerts - 1) :
          (InMain /\ ~args.once /\ Alerts = k) ~> (Alerts = k + 1 /\ Len(slept) = k + 1)

C7_Witness ==
    /\ InMain
    /\ ~args.once
    /\ Alerts = MaxAlerts
    /\ Len(slept) = MaxAlerts
    /\ slept[MaxAlerts] = 30

\* C8 as stated: every alert, the first and the repeated ones, is the clear
\* sequence, then the bell, then the message.
C8_AsStated ==
    \A i \in 1..Len(out) :
        out[i] = "BEL" =>
            /\ i > 2
            /\ SubSeq(out, i - 2, i - 1) = <<"ESC[2J", "ESC[H">>
            /\ i < Len(out)
            /\ out[i + 1] = MessageText

\* C8, amended: the clear sequence is written once, after the confirmation and
\* before the first alert; every alert, the first and the repeated ones, is the
\* bell followed by the message and a newline, and nothing else is written.
C8_ClearOnceThenAlerts ==
    /\ pc \in {"flush", "alert", "alerted", "exit_ok", "exit_io_error"} =>
          \E n \in 0..(MaxAlerts + 1) :
              /\ out = Confirmation \o <<"ESC[2J", "ESC[H">>
                         \o Times(<<"BEL", MessageText, "LF">>, n)
              /\ n = Len(slept) - (IF pc = "alerted" \/ pc = "exit_ok" THEN 0 ELSE 1)
    /\ pc \in {"parse", "confirm", "sleep", "clear", "exit_usage"} =>
          Count("BEL") = 0 /\ Count("ESC[2J") = 0

C8_Witness ==
    /\ Count("BEL") = 2
    /\ Count("ESC[2J") = 1
    /\ pc = "alerted"

\* C10: nothing is waited for or written unless from_str succeeded; the
\* confirmation comes first, then one wait of hours*3600 + minutes*60 seconds
\* (at most 933300), then the alerts; after a parse error the run never leaves
\* the Idle state.
C10_IdleWaitingAlerting ==
    /\ (slept # <<>> \/ out # <<>> \/ InMain) => ret.tag = "Ok"
    /\ ret.tag = "Err" => (pc \in {"parse", "exit_usage"} /\ ~Waiting /\ ~Alerting)
    /\ Idle => (slept = <<>> /\ out = <<>>)
    /\ Waiting => (slept = <<>> /\ out = Confirmation)
    /\ (Alerting \/ pc = "exit_io_error") =>
          /\ IsPrefix(Confirmation, out)
          /\ slept # <<>>
          /\ slept[1] = ret.hours * 3600 + ret.minutes * 60
          /\ slept[1] <= 933300
    /\ Alerts >= 1 => Alerting /\ pc \notin {"clear", "flush"}

C10_Witness ==
    /\ pc = "alerted"
    /\ s = HM(U8Max, U8Max)
    /\ slept[1] = 933300

====
